---- MODULE Spec2Model ----
(***************************************************************************)
(* CloudSettingsService (packages/core/src/config/cloudSettingsService.ts) *)
(*                                                                         *)
(* The singleton accessor getInstance and the async method loadSettings,   *)
(* with its two suspension points (await getOauthClient, await             *)
(* client.request).  JavaScript values are records [t, v]: t is the        *)
(* runtime type tag and v the value's text, so that truthiness, typeof,    *)
(* === and template interpolation are computed as the language computes    *)
(* them.                                                                   *)
(***************************************************************************)
EXTENDS Integers, Sequences, FiniteSets, TLC

\* Number of loadSettings invocations the host makes in SpecConc.
NumCalls == 2

AllCalls == 1..NumCalls

(***************************************************************************)
(* JavaScript values                                                       *)
(***************************************************************************)
Undefined == [t |-> "undefined", v |-> "undefined"]
Null      == [t |-> "null", v |-> "null"]
Num(s)    == [t |-> "number", v |-> s]
Str(s)    == [t |-> "string", v |-> s]
Bool(s)   == [t |-> "boolean", v |-> s]
Obj(s)    == [t |-> "object", v |-> s]
Arr(s)    == [t |-> "array", v |-> s]

\* ToBoolean: what `!x` and `a || b` test.
Truthy(x) ==
    /\ x.t \notin {"undefined", "null"}
    /\ ~(x.t = "number" /\ x.v \in {"0", "NaN"})
    /\ ~(x.t = "string" /\ x.v = "")
    /\ ~(x.t = "boolean" /\ x.v = "false")

\* The typeof operator: null and arrays are "object".
TypeOf(x) ==
    IF x.t \in {"null", "object", "array"} THEN "object" ELSE x.t

\* a || b
Or(a, b) == IF Truthy(a) THEN a ELSE b

\* a === b (no NaN in the modelled values)
StrictEq(a, b) == a.t = b.t /\ a.v = b.v

\* `${x}` for the values the code interpolates (strings and numbers).
Interpolate(x) == IF x.t = "object" THEN "[object Object]" ELSE x.v

(***************************************************************************)
(* Raised values.  thrown = "object": an error object with an optional     *)
(* code field and an optional response carrying a status; thrown =         *)
(* "undefined": the rejection value is undefined.                          *)
(***************************************************************************)
Err(text, code, hasResponse, status) ==
    [thrown |-> "object", text |-> text, code |-> code,
     hasResponse |-> hasResponse, status |-> status]

ThrownUndefined ==
    [thrown |-> "undefined", text |-> "undefined", code |-> Undefined,
     hasResponse |-> FALSE, status |-> Undefined]

\* The TypeError a property read on undefined raises.
TypeErrorReadingCode ==
    Err("TypeError: Cannot read properties of undefined (reading 'code')",
        Undefined, FALSE, Undefined)

\* e.code
CodeOf(e) == e.code

\* e.response?.status
ResponseStatusOf(e) == IF e.hasResponse THEN e.status ELSE Undefined

(***************************************************************************)
(* Input domains                                                           *)
(***************************************************************************)
EnvNames == {"GOOGLE_CLOUD_PROJECT", "GOOGLE_CLOUD_PROJECT_ID"}

EnvValues == {Undefined, Str(""), Str("my-project"), Str("a b/c?d")}

Statuses == {Num("200"), Num("204"), Num("302"), Num("500"), Str("200")}

Bodies ==
    {Undefined, Null, Str("not-an-object"), Str(""), Num("0"), Num("42"),
     Bool("false"), Bool("true"), Arr("[1,2,3]"), Arr("[]"),
     Obj("{\"a\":1}"), Obj("{}")}

ErrorCodes ==
    {Undefined, Num("0"), Num("403"), Num("404"), Num("500"), Str("404"),
     Str("ERR_BAD_REQUEST")}

ErrorStatuses == {Num("403"), Num("404"), Num("500")}

RequestErrors ==
    {Err("Error: request failed", c, FALSE, Undefined) : c \in ErrorCodes}
    \cup {Err("Error: request failed", c, TRUE, s) :
             c \in ErrorCodes, s \in ErrorStatuses}
    \cup {ThrownUndefined}

ClientErrors ==
    {Err("Error: network down during auth", Undefined, FALSE, Undefined),
     Err("Error: auth refused", Num("403"), TRUE, Num("403")),
     ThrownUndefined}

NoError == Err("", Undefined, FALSE, Undefined)

Response(status, data) ==
    [ok |-> TRUE, status |-> status, data |-> data, error |-> NoError]

Raised(e) ==
    [ok |-> FALSE, status |-> Undefined, data |-> Undefined, error |-> e]

\* Outcome of a collaborator that has not settled yet.
NotSettled == [ok |-> FALSE, status |-> Undefined, data |-> Undefined,
               error |-> Err("not settled", Undefined, FALSE, Undefined)]

ClientOutcomes == {Response(Num("200"), Undefined)} \cup {Raised(e) : e \in ClientErrors}

RequestOutcomes ==
    {Response(s, d) : s \in Statuses, d \in Bodies}
    \cup {Raised(e) : e \in RequestErrors}

VARIABLES
    instance,     \* CloudSettingsService.instance
    env,          \* process.env
    pc,           \* per call: where the invocation is suspended
    envAtCall,    \* per call: process.env as the call read it
    projectId,    \* per call: local projectId
    url,          \* per call: local url
    constructs,   \* per call: number of getOauthClient calls made
    requests,     \* client.request calls issued, in order
    clientOut,    \* per call: what getOauthClient settled to
    requestOut,   \* per call: what client.request settled to
    result,       \* per call: state of the returned promise
    debugLog,     \* per call: debugLogger.log messages
    errorLog      \* per call: console.error messages

vars == <<instance, env, pc, envAtCall, projectId, url, constructs, requests,
          clientOut, requestOut, result, debugLog, errorLog>>

(***************************************************************************)
(* loadSettings, straight-line parts                                       *)
(***************************************************************************)
\* What a finished try-block pass leaves behind: the promise's settlement
\* and the lines written to the two log channels.
Settled(state, value, dbg, err) ==
    [state |-> state, value |-> value, dbg |-> dbg, err |-> err]

\* Variant: ?? in place of ||, so an empty primary does not fall back.
ResolveProjectIdNullish(e) ==
    IF e["GOOGLE_CLOUD_PROJECT"] = Undefined
    THEN e["GOOGLE_CLOUD_PROJECT_ID"]
    ELSE e["GOOGLE_CLOUD_PROJECT"]

\* process.env['GOOGLE_CLOUD_PROJECT'] || process.env['GOOGLE_CLOUD_PROJECT_ID']
ResolveProjectId(e) ==
    Or(e["GOOGLE_CLOUD_PROJECT"], e["GOOGLE_CLOUD_PROJECT_ID"])

\* Variant: if (projectId === undefined), which lets the empty string
\* through.
NoProjectIdUndefinedOnly(p) == p = Undefined

\* if (!projectId)
NoProjectId(p) == ~Truthy(p)

NoProjectIdMessage ==
    "Cloud Settings: No project ID found in environment variables; skipping."

\* `${projectId}-gemini-cli-settings`
BucketName(p) == Interpolate(p) \o "-gemini-cli-settings"

FileName == "settings.json"

\* Variant: the metadata url, without the alt=media query.
UrlWithoutAltMedia(p) ==
    "https://storage.googleapis.com/storage/v1/b/" \o BucketName(p)
        \o "/o/" \o FileName

\* `https://storage.googleapis.com/storage/v1/b/${bucketName}/o/${fileName}?alt=media`
Url(p) ==
    "https://storage.googleapis.com/storage/v1/b/" \o BucketName(p)
        \o "/o/" \o FileName \o "?alt=media"

AttemptMessage(u) == "Cloud Settings: Attempting to fetch from " \o u

\* Variant: the outer handler logs and throws again.
OuterCatchRethrows(e) ==
    Settled("rejected", Undefined,
            <<"Cloud Settings: Error loading settings: " \o e.text>>, <<>>)

\* catch (e) { debugLogger.log(`... ${e}`); return null; }
OuterCatch(e) ==
    Settled("fulfilled", Null,
            <<"Cloud Settings: Error loading settings: " \o e.text>>, <<>>)

\* const status = e.code || e.response?.status
ErrorStatus(e) == Or(CodeOf(e), ResponseStatusOf(e))

\* status === 403 || status === 404
IsSkipStatus(status) ==
    StrictEq(status, Num("403")) \/ StrictEq(status, Num("404"))

SkipMessage(status) ==
    "Cloud Settings: Skipped (Status " \o Interpolate(status)
        \o "). Project/Bucket not found or access denied."

\* The inner catch around client.request: 403/404 return null, anything
\* else is thrown again and lands in the outer catch.  Reading e.code off
\* an undefined rejection value raises a TypeError there.
InnerCatch(e) ==
    IF e.thrown = "undefined"
    THEN OuterCatch(TypeErrorReadingCode)
    ELSE IF IsSkipStatus(ErrorStatus(e))
         THEN Settled("fulfilled", Null, <<SkipMessage(ErrorStatus(e))>>, <<>>)
         ELSE OuterCatch(e)

FetchFailedMessage(status) ==
    "Cloud Settings: Fetch failed with status " \o Interpolate(status)
        \o "; skipping"

MalformedMessage ==
    "Cloud Settings: Failed to parse settings.json. The file must be a valid JSON object."

SuccessMessage == "Cloud Settings: Successfully loaded."

\* Variant: an object without keys is refused as well.
InvalidDataOrEmpty(data) ==
    ~Truthy(data) \/ TypeOf(data) # "object" \/ data.v = "{}"

\* if (!data || typeof data !== 'object')
InvalidData(data) == ~Truthy(data) \/ TypeOf(data) # "object"

\* Variant: the shape check comes before the status check.
ClassifyResponseShapeFirst(res) ==
    IF InvalidData(res.data)
    THEN Settled("fulfilled", Null, <<>>, <<MalformedMessage>>)
    ELSE IF ~StrictEq(res.status, Num("200"))
         THEN Settled("fulfilled", Null, <<FetchFailedMessage(res.status)>>, <<>>)
         ELSE Settled("fulfilled", res.data, <<SuccessMessage>>, <<>>)

\* Everything after a response has arrived: status check, shape check,
\* success.
ClassifyResponse(res) ==
    IF ~StrictEq(res.status, Num("200"))
    THEN Settled("fulfilled", Null, <<FetchFailedMessage(res.status)>>, <<>>)
    ELSE IF InvalidData(res.data)
         THEN Settled("fulfilled", Null, <<>>, <<MalformedMessage>>)
         ELSE Settled("fulfilled", res.data, <<SuccessMessage>>, <<>>)

\* Variant: a request for a url already asked for is not issued again.
IssueRequestDeduplicated(c, u) ==
    IF \E i \in DOMAIN requests : requests[i].url = u
    THEN requests
    ELSE Append(requests, [call |-> c, url |-> u, method |-> "GET"])

\* client.request({ url, method: 'GET' })
IssueRequest(c, u) ==
    Append(requests, [call |-> c, url |-> u, method |-> "GET"])

(***************************************************************************)
(* State                                                                   *)
(***************************************************************************)
NoInstance == "undefined"
TheInstance == "CloudSettingsService"

Pending == [state |-> "pending", value |-> Undefined]

Init ==
    /\ instance = NoInstance
    /\ env \in [EnvNames -> EnvValues]
    /\ pc = [c \in AllCalls |-> "idle"]
    /\ envAtCall = [c \in AllCalls |-> [n \in EnvNames |-> Undefined]]
    /\ projectId = [c \in AllCalls |-> Undefined]
    /\ url = [c \in AllCalls |-> ""]
    /\ constructs = [c \in AllCalls |-> 0]
    /\ requests = <<>>
    /\ clientOut = [c \in AllCalls |-> NotSettled]
    /\ requestOut = [c \in AllCalls |-> NotSettled]
    /\ result = [c \in AllCalls |-> Pending]
    /\ debugLog = [c \in AllCalls |-> <<>>]
    /\ errorLog = [c \in AllCalls |-> <<>>]

\* The invocation returns or its try block is left: the promise settles and
\* the log lines are written.
Finish(c, s) ==
    /\ pc' = [pc EXCEPT ![c] = "done"]
    /\ result' = [result EXCEPT ![c] = [state |-> s.state, value |-> s.value]]
    /\ debugLog' = [debugLog EXCEPT ![c] = @ \o s.dbg]
    /\ errorLog' = [errorLog EXCEPT ![c] = @ \o s.err]

(***************************************************************************)
(* Operations                                                              *)
(***************************************************************************)
\* static getInstance()
GetInstance ==
    /\ instance' = IF instance = NoInstance THEN TheInstance ELSE instance
    /\ UNCHANGED <<env, pc, envAtCall, projectId, url, constructs, requests,
                   clientOut, requestOut, result, debugLog, errorLog>>

\* The host process changes an environment variable (delete or assign).
SetEnv(n, v) ==
    /\ env[n] # v
    /\ env' = [env EXCEPT ![n] = v]
    /\ UNCHANGED <<instance, pc, envAtCall, projectId, url, constructs,
                   requests, clientOut, requestOut, result, debugLog, errorLog>>

\* loadSettings is called on the instance and runs to its first await: it
\* either returns null for want of a project identifier, or builds the url
\* and calls getOauthClient.
Begin(c) ==
    /\ instance = TheInstance
    /\ pc[c] = "idle"
    /\ envAtCall' = [envAtCall EXCEPT ![c] = env]
    /\ LET p == ResolveProjectId(env) IN
       /\ projectId' = [projectId EXCEPT ![c] = p]
       /\ IF NoProjectId(p)
          THEN /\ Finish(c, Settled("fulfilled", Null, <<NoProjectIdMessage>>, <<>>))
               /\ UNCHANGED <<url, constructs>>
          ELSE /\ url' = [url EXCEPT ![c] = Url(p)]
               /\ debugLog' = [debugLog EXCEPT ![c] = Append(@, AttemptMessage(Url(p)))]
               /\ constructs' = [constructs EXCEPT ![c] = @ + 1]
               /\ pc' = [pc EXCEPT ![c] = "awaitClient"]
               /\ UNCHANGED <<result, errorLog>>
    /\ UNCHANGED <<instance, env, requests, clientOut, requestOut>>

\* Variant: a failed client construction is swallowed and the request is
\* issued all the same.
ClientSettlesThenRequestsAnyway(c, o) ==
    /\ pc[c] = "awaitClient"
    /\ clientOut' = [clientOut EXCEPT ![c] = o]
    /\ requests' = IssueRequest(c, url[c])
    /\ pc' = [pc EXCEPT ![c] = "awaitRequest"]
    /\ UNCHANGED <<result, debugLog, errorLog>>
    /\ UNCHANGED <<instance, env, envAtCall, projectId, url, constructs, requestOut>>

\* getOauthClient settles: with a client, on which the GET is issued, or
\* with a raised error, which the outer catch takes.
ClientSettles(c, o) ==
    /\ pc[c] = "awaitClient"
    /\ clientOut' = [clientOut EXCEPT ![c] = o]
    /\ IF o.ok
       THEN /\ requests' = IssueRequest(c, url[c])
            /\ pc' = [pc EXCEPT ![c] = "awaitRequest"]
            /\ UNCHANGED <<result, debugLog, errorLog>>
       ELSE /\ Finish(c, OuterCatch(o.error))
            /\ UNCHANGED requests
    /\ UNCHANGED <<instance, env, envAtCall, projectId, url, constructs, requestOut>>

\* client.request settles: with a response, which is classified, or with a
\* raised error, which the inner catch takes.
RequestSettles(c, o) ==
    /\ pc[c] = "awaitRequest"
    /\ requestOut' = [requestOut EXCEPT ![c] = o]
    /\ Finish(c, IF o.ok THEN ClassifyResponse(o) ELSE InnerCatch(o.error))
    /\ UNCHANGED <<instance, env, envAtCall, projectId, url, constructs,
                   requests, clientOut>>

\* One invocation, every environment and every collaborator outcome.
Next ==
    \/ GetInstance
    \/ \E n \in EnvNames, v \in EnvValues : SetEnv(n, v)
    \/ Begin(1)
    \/ \E o \in ClientOutcomes : ClientSettles(1, o)
    \/ \E o \in RequestOutcomes : RequestSettles(1, o)

Spec == Init /\ [][Next]_vars

(***************************************************************************)
(* Vocabulary of the properties                                            *)
(***************************************************************************)
Done(c) == pc[c] = "done"

Started(c) == pc[c] # "idle"

ReturnedNull(c) == result[c] = [state |-> "fulfilled", value |-> Null]

\* An environment variable that is unset or set to the empty string.
Empty(x) == x = Undefined \/ x = Str("")

Primary(c) == envAtCall[c]["GOOGLE_CLOUD_PROJECT"]

Secondary(c) == envAtCall[c]["GOOGLE_CLOUD_PROJECT_ID"]

RequestsOf(c) == {i \in DOMAIN requests : requests[i].call = c}

GotResponse(c) == Done(c) /\ requestOut[c].ok

RequestRaised(c) == Done(c) /\ requestOut[c] # NotSettled /\ ~requestOut[c].ok

ClientRaised(c) == clientOut[c] # NotSettled /\ ~clientOut[c].ok

Last(q) == q[Len(q)]

C2_NoIdentifierNoNetwork ==
    \A c \in AllCalls :
        (Started(c) /\ Empty(Primary(c)) /\ Empty(Secondary(c))) =>
            /\ Done(c)
            /\ ReturnedNull(c)
            /\ constructs[c] = 0
            /\ clientOut[c] = NotSettled
            /\ RequestsOf(c) = {}

C2_Witness ==
    \E c \in AllCalls :
        /\ Done(c)
        /\ Primary(c) = Str("")
        /\ Secondary(c) = Undefined
        /\ ReturnedNull(c)
        /\ debugLog[c] = <<NoProjectIdMessage>>

(***************************************************************************)
(* C3: a 200 response whose body is null or undefined, a primitive, or an  *)
(* array makes the call return null and write the malformed-payload        *)
(* message to console.error.                                               *)
(***************************************************************************)
C3_MalformedBodyRejected ==
    \A c \in AllCalls :
        (/\ GotResponse(c)
         /\ requestOut[c].status = Num("200")
         /\ requestOut[c].data.t # "object") =>
            /\ ReturnedNull(c)
            /\ errorLog[c] = <<MalformedMessage>>

(***************************************************************************)
(* C4: a request error carrying status 403 or 404, in its code field or in *)
(* its response's status field, is an expected absence: the call returns   *)
(* null, its last debug line is the skip message, and nothing is written   *)
(* to console.error.                                                       *)
(***************************************************************************)
Carries(e, n) ==
    \/ e.code = Num(n)
    \/ e.hasResponse /\ e.status = Num(n)

C4_ExpectedAbsence ==
    \A c \in AllCalls :
        (/\ RequestRaised(c)
         /\ requestOut[c].error.thrown = "object"
         /\ Carries(requestOut[c].error, "403") \/ Carries(requestOut[c].error, "404")) =>
            /\ ReturnedNull(c)
            /\ errorLog[c] = <<>>
            /\ Last(debugLog[c]) \in {SkipMessage(Num("403")), SkipMessage(Num("404"))}

(***************************************************************************)
(* C5: a 200 response whose body is a JSON object makes the call return    *)
(* that very body, with nothing written to console.error.                  *)
(***************************************************************************)
C5_PassThrough ==
    \A c \in AllCalls :
        (/\ GotResponse(c)
         /\ requestOut[c].status = Num("200")
         /\ requestOut[c].data.t = "object") =>
            /\ result[c] = [state |-> "fulfilled", value |-> requestOut[c].data]
            /\ errorLog[c] = <<>>

C5_Witness ==
    \E c \in AllCalls :
        /\ GotResponse(c)
        /\ requestOut[c] = Response(Num("200"), Obj("{\"a\":1}"))
        /\ result[c].value = Obj("{\"a\":1}")

(***************************************************************************)
(* C6: a response whose status is not exactly 200 makes the call return    *)
(* null with the fetch-failed debug line and without the malformed-payload *)
(* message, whatever the body is.                                          *)
(***************************************************************************)
C6_StatusBeforeShape ==
    \A c \in AllCalls :
        (GotResponse(c) /\ requestOut[c].status # Num("200")) =>
            /\ ReturnedNull(c)
            /\ errorLog[c] = <<>>
            /\ Last(debugLog[c]) = FetchFailedMessage(requestOut[c].status)

\* A 500 with a malformed body, and a 204 with a valid object: both
\* reached through the status path.
C6_Witness ==
    \E c \in AllCalls :
        /\ GotResponse(c)
        /\ requestOut[c] = Response(Num("500"), Str("not-an-object"))
        /\ ReturnedNull(c)
        /\ errorLog[c] = <<>>

(***************************************************************************)
(* C7: when getOauthClient raises, the call returns null through the outer *)
(* handler and issues no request; every request issued belongs to a call   *)
(* whose client construction succeeded.                                    *)
(***************************************************************************)
C7_ClientFailureNoRequest ==
    /\ \A c \in AllCalls :
          ClientRaised(c) =>
              /\ Done(c)
              /\ ReturnedNull(c)
              /\ RequestsOf(c) = {}
              /\ requestOut[c] = NotSettled
    /\ \A i \in DOMAIN requests : clientOut[requests[i].call].ok

C7_Witness ==
    \E c \in AllCalls :
        /\ ClientRaised(c)
        /\ Done(c)
        /\ ReturnedNull(c)
        /\ Len(debugLog[c]) = 2

(***************************************************************************)
(* C8: a call issues at most one request, and it is a GET of               *)
(* https://storage.googleapis.com/storage/v1/b/{identifier}-gemini-cli-    *)
(* settings/o/settings.json?alt=media with the resolved identifier         *)
(* inserted as it is.                                                      *)
(***************************************************************************)
IdentifierText(c) ==
    IF ~Empty(Primary(c)) THEN Primary(c).v ELSE Secondary(c).v

C8_RequestUrl ==
    /\ \A c \in AllCalls : Cardinality(RequestsOf(c)) <= 1
    /\ \A i \in DOMAIN requests :
          /\ requests[i].method = "GET"
          /\ requests[i].url =
                "https://storage.googleapis.com/storage/v1/b/"
                    \o IdentifierText(requests[i].call)
                    \o "-gemini-cli-settings/o/settings.json?alt=media"

C8_Witness ==
    \E i \in DOMAIN requests :
        requests[i].url =
            "https://storage.googleapis.com/storage/v1/b/a b/c?d-gemini-cli-settings/o/settings.json?alt=media"

(***************************************************************************)
(* C9: the identifier is GOOGLE_CLOUD_PROJECT when that is set and         *)
(* non-empty, whatever GOOGLE_CLOUD_PROJECT_ID is; otherwise it is         *)
(* GOOGLE_CLOUD_PROJECT_ID when that is non-empty.  An empty primary       *)
(* counts as unset.                                                        *)
(***************************************************************************)
C9_FirstNonEmptyWins ==
    \A c \in AllCalls :
        Started(c) =>
            /\ ~Empty(Primary(c)) => projectId[c] = Primary(c)
            /\ (Empty(Primary(c)) /\ ~Empty(Secondary(c))) =>
                  projectId[c] = Secondary(c)

C9_Witness ==
    \E c \in AllCalls :
        /\ Started(c)
        /\ Primary(c) = Str("")
        /\ Secondary(c) = Str("my-project")
        /\ projectId[c] = Str("my-project")
        /\ url[c] = Url(Str("my-project"))

(***************************************************************************)
(* Several invocations on the shared instance.  The host may start a call  *)
(* at any time, before or after others have finished, and the two awaits   *)
(* of every call settle in any order.  The value domains are the ones that *)
(* tell the calls apart: two identifiers, and one outcome of each class.   *)
(***************************************************************************)
ConcEnvValues == {Undefined, Str("my-project"), Str("a b/c?d")}

ConcClientOutcomes ==
    {Response(Num("200"), Undefined),
     Raised(Err("Error: network down during auth", Undefined, FALSE, Undefined))}

ConcRequestOutcomes ==
    {Response(Num("200"), Obj("{\"a\":1}")),
     Response(Num("200"), Str("not-an-object")),
     Response(Num("500"), Obj("{\"a\":1}")),
     Raised(Err("Error: request failed", Undefined, TRUE, Num("404"))),
     Raised(Err("Error: request failed", Undefined, FALSE, Undefined))}

InitConc ==
    /\ Init
    /\ env["GOOGLE_CLOUD_PROJECT"] \in ConcEnvValues
    /\ env["GOOGLE_CLOUD_PROJECT_ID"] = Undefined

NextConc ==
    \/ GetInstance
    \/ \E v \in ConcEnvValues : SetEnv("GOOGLE_CLOUD_PROJECT", v)
    \/ \E c \in AllCalls : Begin(c)
    \/ \E c \in AllCalls, o \in ConcClientOutcomes : ClientSettles(c, o)
    \/ \E c \in AllCalls, o \in ConcRequestOutcomes : RequestSettles(c, o)

SpecConc == InitConc /\ [][NextConc]_vars

(***************************************************************************)
(* C10: calls on the shared instance proceed independently under every     *)
(* interleaving of their awaits.  Each call constructs at most one client  *)
(* and issues at most one request; a call suspended at an await can always *)
(* be resumed, whatever the other calls are doing; every call whose client *)
(* construction succeeded has issued its own request, so N such calls      *)
(* issue N requests; and a finished call's result is a function of the     *)
(* environment it read and of the outcomes its own collaborators gave it.  *)
(***************************************************************************)
ExpectedResult(e, co, ro) ==
    IF Empty(e["GOOGLE_CLOUD_PROJECT"]) /\ Empty(e["GOOGLE_CLOUD_PROJECT_ID"])
    THEN Null
    ELSE IF ~co.ok
         THEN Null
         ELSE IF ro.ok /\ ro.status = Num("200") /\ ro.data.t \in {"object", "array"}
              THEN ro.data
              ELSE Null

C10_IndependentCalls ==
    /\ \A c \in AllCalls :
          /\ constructs[c] <= 1
          /\ Cardinality(RequestsOf(c)) <= 1
          /\ clientOut[c].ok => Cardinality(RequestsOf(c)) = 1
          /\ pc[c] = "awaitClient" =>
                \A o \in ConcClientOutcomes : ENABLED ClientSettles(c, o)
          /\ pc[c] = "awaitRequest" =>
                \A o \in ConcRequestOutcomes : ENABLED RequestSettles(c, o)
          /\ Done(c) =>
                result[c] = [state |-> "fulfilled",
                             value |-> ExpectedResult(envAtCall[c], clientOut[c],
                                                      requestOut[c])]
    /\ Len(requests) = Cardinality({c \in AllCalls : clientOut[c].ok})
    /\ instance \in {NoInstance, TheInstance}

\* Two calls with the same identifier were in flight together: two requests
\* for the same url were issued, the call that asked second was answered
\* first, and the two results differ.
C10_Witness ==
    \E c \in AllCalls, d \in AllCalls :
        /\ c # d
        /\ Done(c) /\ Done(d)
        /\ Len(requests) >= 2
        /\ requests[1].call = c /\ requests[2].call = d
        /\ requests[1].url = requests[2].url
        /\ result[c].value = Null
        /\ result[d].value = Obj("{\"a\":1}")

====
